---------------------------- MODULE Spec2Model ----------------------------
(***************************************************************************)
(* Model of the two Streamlit scripts of GRlabs:                           *)
(*   src/streamlit/schwarzschild_potential.py         (app = "massive")    *)
(*   src/streamlit/schwarzschild_potential_photon.py  (app = "photon")     *)
(*                                                                         *)
(* A Streamlit script is re-run from its first line after every change of  *)
(* a widget.  The state is the widget values plus the position of the      *)
(* current run (pc) and what the run has produced so far.                  *)
(*                                                                         *)
(* Numbers.  The scripts compute with binary64 floats.  The model keeps a  *)
(* float as a record: a finite value is a fixed-point integer v standing   *)
(* for v / Scale, and nan, inf and -inf are values of their own with the   *)
(* IEEE rules for comparison (every comparison with nan is false).         *)
(* Rounding is towards zero at 1/Scale instead of to nearest at 2^-53; a   *)
(* product or quotient of non-zero finite values is never rounded to zero  *)
(* (binary64 underflows only below 1e-308) and a result beyond MaxFin      *)
(* stays finite at MaxFin (binary64 overflows only above 1e308).           *)
(*                                                                         *)
(* Text.  A string is a sequence of one-character strings.                 *)
(*                                                                         *)
(* Not modelled: the y-axis widgets (auto_ylim, y_min, y_max), which only  *)
(* set the axis limits, and the pixel content of the figure; a plotted     *)
(* curve is kept as the call that draws it, not as its 3000 values.        *)
(***************************************************************************)
EXTENDS Integers, Sequences, FiniteSets, TLC

(***************************************************************************)
(* Bounds of the model                                                     *)
(***************************************************************************)
\* longest text typed character by character into the text input
MaxLen == 3

(***************************************************************************)
(* Floats                                                                  *)
(***************************************************************************)
\* finite values are kept to four decimal digits
Scale == 10000

MaxFin == 200000 * Scale

Fin(v) == [k |-> "fin", v |-> v]

NaN == [k |-> "nan", v |-> 0]

PInf == [k |-> "inf", v |-> 1]

NInf == [k |-> "inf", v |-> -1]

IsNaN(x) == x.k = "nan"

IsFin(x) == x.k = "fin"

IsInf(x) == x.k = "inf"

IsZero(x) == x.k = "fin" /\ x.v = 0

AbsInt(n) == IF n < 0 THEN -n ELSE n

SgnInt(n) == IF n < 0 THEN -1 ELSE IF n > 0 THEN 1 ELSE 0

MinInt(a, b) == IF a < b THEN a ELSE b

\* position of a non-nan float on the extended real line
Ord(x) == IF x.k = "inf" THEN x.v * (MaxFin + 1) ELSE x.v

\* x < y, x > y, x <= y, x == y of Python floats
Lt(x, y) == ~IsNaN(x) /\ ~IsNaN(y) /\ Ord(x) < Ord(y)

Gt(x, y) == Lt(y, x)

Le(x, y) == ~IsNaN(x) /\ ~IsNaN(y) /\ Ord(x) <= Ord(y)

FEq(x, y) == ~IsNaN(x) /\ ~IsNaN(y) /\ Ord(x) = Ord(y)

\* a non-negative magnitude kept in range, and away from zero when the
\* exact result is not zero
Clamp(m, nonzero) ==
    IF m > MaxFin THEN MaxFin
    ELSE IF m = 0 /\ nonzero THEN 1
    ELSE m

\* floor(a * b / Scale) for a, b >= 0, by parts so that no intermediate
\* product leaves the 32-bit integers; MaxFin when the result is larger
MulMag(a, b) ==
    LET qa == a \div Scale
        ma == a % Scale
        qb == b \div Scale
        mb == b % Scale
    IN  IF qa > 0 /\ qb > 0 /\ qa > (MaxFin \div Scale) \div qb
        THEN MaxFin
        ELSE Clamp(qa * qb * Scale + qa * mb + ma * qb
                     + (ma * mb) \div Scale,
                   a # 0 /\ b # 0)

\* floor(a * Scale / b) for a >= 0, b > 0 (one of a, b below 200000)
DivMag(a, b) ==
    LET q == a \div b
        m == a % b
    IN  IF q > MaxFin \div Scale
        THEN MaxFin
        ELSE Clamp(q * Scale + (m * Scale) \div b, a # 0)

\* x * y
Mul(x, y) ==
    IF IsNaN(x) \/ IsNaN(y) THEN NaN
    ELSE IF IsInf(x) \/ IsInf(y)
         THEN IF IsZero(x) \/ IsZero(y) THEN NaN
              ELSE IF SgnInt(x.v) * SgnInt(y.v) > 0 THEN PInf ELSE NInf
    ELSE Fin(SgnInt(x.v) * SgnInt(y.v) * MulMag(AbsInt(x.v), AbsInt(y.v)))

\* x ** 2
Pow2(x) == Mul(x, x)

\* x / y where y is not zero
DivNZ(x, y) ==
    IF IsNaN(x) \/ IsNaN(y) THEN NaN
    ELSE IF IsInf(x)
         THEN IF IsInf(y) THEN NaN
              ELSE IF SgnInt(x.v) * SgnInt(y.v) > 0 THEN PInf ELSE NInf
    ELSE IF IsInf(y) THEN Fin(0)
    ELSE Fin(SgnInt(x.v) * SgnInt(y.v) * DivMag(AbsInt(x.v), AbsInt(y.v)))

\* x / y of two Python floats raises ZeroDivisionError exactly when y == 0
RaisesZeroDivision(x, y) == IsZero(y)

\* x / y where one operand is a numpy float64: a zero divisor gives
\* inf or nan (with a RuntimeWarning), never an exception
NpDiv(x, y) ==
    IF IsZero(y)
    THEN IF IsNaN(x) \/ IsZero(x) THEN NaN
         ELSE IF Ord(x) > 0 THEN PInf ELSE NInf
    ELSE DivNZ(x, y)

\* x + y
Add(x, y) ==
    IF IsNaN(x) \/ IsNaN(y) THEN NaN
    ELSE IF IsInf(x) /\ IsInf(y) THEN (IF x.v = y.v THEN x ELSE NaN)
    ELSE IF IsInf(x) THEN x
    ELSE IF IsInf(y) THEN y
    ELSE Fin(SgnInt(x.v + y.v) * MinInt(AbsInt(x.v + y.v), MaxFin))

Neg(x) == IF IsNaN(x) THEN x ELSE [k |-> x.k, v |-> -x.v]

\* x - y
Sub(x, y) == Add(x, Neg(y))

\* the literal n
Lit(n) == Fin(n * Scale)

RECURSIVE SqrtSearch(_, _, _)
\* the largest r in lo..hi with r * r <= v * Scale, given lo * lo <= v * Scale
SqrtSearch(v, lo, hi) ==
    IF lo = hi THEN lo
    ELSE LET mid == (lo + hi + 1) \div 2
         IN  IF mid <= (v \div mid) * Scale + ((v % mid) * Scale) \div mid
             THEN SqrtSearch(v, mid, hi)
             ELSE SqrtSearch(v, lo, mid - 1)

\* np.sqrt(x) (arguments below 100 only)
Sqrt(x) ==
    IF IsNaN(x) THEN NaN
    ELSE IF IsInf(x) THEN (IF x.v > 0 THEN PInf ELSE NaN)
    ELSE IF x.v < 0 THEN NaN
    ELSE Fin(SqrtSearch(x.v, 0, 10 * Scale))

(***************************************************************************)
(* Text                                                                    *)
(***************************************************************************)
Digits == {"0", "1", "2", "3", "4", "5", "6", "7", "8", "9"}

DigitVal(c) ==
    CASE c = "0" -> 0 [] c = "1" -> 1 [] c = "2" -> 2 [] c = "3" -> 3
      [] c = "4" -> 4 [] c = "5" -> 5 [] c = "6" -> 6 [] c = "7" -> 7
      [] c = "8" -> 8 [] c = "9" -> 9

DigitChar(d) == CHOOSE c \in Digits : DigitVal(c) = d

\* the positions of s that hold the character c
Positions(s, c) == {j \in 1..Len(s) : s[j] = c}

MinOf(S) == CHOOSE x \in S : \A y \in S : x <= y

MaxOf(S) == CHOOSE x \in S : \A y \in S : x >= y

RECURSIVE SplitComma(_)
\* s.split(","): the pieces between the commas; one more piece than commas
SplitComma(s) ==
    IF Positions(s, ",") = {} THEN <<s>>
    ELSE LET j == MinOf(Positions(s, ","))
         IN  <<SubSeq(s, 1, j - 1)>> \o SplitComma(SubSeq(s, j + 1, Len(s)))

\* part.strip(): leading and trailing whitespace removed
Strip(s) ==
    LET keep == {j \in 1..Len(s) : s[j] # " "}
    IN  IF keep = {} THEN <<>> ELSE SubSeq(s, MinOf(keep), MaxOf(keep))

RECURSIVE DigitsVal(_)
\* the number a string of digits writes
DigitsVal(s) ==
    IF s = <<>> THEN 0
    ELSE 10 * DigitsVal(SubSeq(s, 1, Len(s) - 1)) + DigitVal(s[Len(s)])

\* the first four digits after the point, in units of 1 / Scale
FracVal(s) ==
    LET d(j) == IF j <= Len(s) THEN DigitVal(s[j]) ELSE 0
    IN  1000 * d(1) + 100 * d(2) + 10 * d(3) + d(4)

\* the magnitude an unsigned decimal writes: digits, at most one point,
\* at least one digit
DecimalMag(body) ==
    LET dots == Positions(body, ".")
        p    == IF dots = {} THEN Len(body) + 1 ELSE MinOf(dots)
        ip   == SubSeq(body, 1, p - 1)
        fp   == SubSeq(body, p + 1, Len(body))
        some == \E j \in 1..Len(body) : body[j] \in Digits \ {"0"}
    IN  IF Len(ip) > 9 \/ DigitsVal(ip) >= MaxFin \div Scale
        THEN MaxFin
        ELSE Clamp(DigitsVal(ip) * Scale + FracVal(fp), some)

IsDecimal(body) ==
    /\ \A j \in 1..Len(body) : body[j] \in Digits \cup {"."}
    /\ Cardinality(Positions(body, ".")) <= 1
    /\ \E j \in 1..Len(body) : body[j] \in Digits

\* float(part) for a stripped, non-empty part: ok is FALSE when float raises
\* ValueError.  (Exponents, underscores, upper case and "infinity" are not
\* written with the characters of the model.)
ParseFloat(part) ==
    LET signed == part[1] \in {"-", "+"}
        sign   == IF part[1] = "-" THEN -1 ELSE 1
        body   == IF signed THEN Tail(part) ELSE part
    IN  IF body = <<"n", "a", "n">> THEN [ok |-> TRUE, val |-> NaN]
        ELSE IF body = <<"i", "n", "f">>
             THEN [ok |-> TRUE, val |-> IF sign = 1 THEN PInf ELSE NInf]
        ELSE IF IsDecimal(body)
             THEN [ok |-> TRUE, val |-> Fin(sign * DecimalMag(body))]
        ELSE [ok |-> FALSE, val |-> NaN]

RECURSIVE IntChars(_)
\* the decimal digits of n >= 0
IntChars(n) ==
    IF n < 10 THEN <<DigitChar(n)>>
    ELSE IntChars(n \div 10) \o <<DigitChar(n % 10)>>

\* f"{x:.3f}" for a finite x >= 0
Format3f(x) ==
    LET n == (x.v + 5) \div 10
        f == n % 1000
    IN  IntChars(n \div 1000)
          \o <<".", DigitChar(f \div 100), DigitChar((f \div 10) % 10),
               DigitChar(f % 10)>>

(***************************************************************************)
(* Program constants and widgets                                           *)
(***************************************************************************)
\* GM = 1.0
GM == Lit(1)

num_points == 3000

\* st.sidebar.slider(min_value, max_value, value, step), in units of 1/Scale
RMinSliderMassive ==
    [min_value |-> 100, max_value |-> 100000, value |-> 25000, step |-> 1000]

RMaxSliderMassive ==
    [min_value |-> 100000, max_value |-> 10000000, value |-> 5000000,
     step |-> 100000]

RMinSliderPhoton ==
    [min_value |-> 1000, max_value |-> 50000, value |-> 15000, step |-> 1000]

RMaxSliderPhoton ==
    [min_value |-> 50000, max_value |-> 500000, value |-> 150000,
     step |-> 10000]

\* the positions of a slider the model lets the user choose: its lowest
\* position, its initial value and its highest position min_value + n * step
SliderChoices(s) ==
    {s.min_value, s.value,
     s.min_value + ((s.max_value - s.min_value) \div s.step) * s.step}

\* value="4"
DefaultLambdaStr == <<"4">>

\* value=f"{np.sqrt(27):.3f}, 6, 4"
DefaultBStr == Format3f(Sqrt(Lit(27))) \o <<",", " ", "6", ",", " ", "4">>

\* the characters of the texts typed freely
Alphabet == {",", " ", "4", "a"}

ShortTexts == UNION {[1..n -> Alphabet] : n \in 0..MaxLen}

\* longer texts the user may type as well
NamedTexts ==
    { DefaultLambdaStr, DefaultBStr,
      <<"0">>, <<"4", ",", "0">>, <<"3">>, <<"3", "2">>, <<"3", ".", "5">>, <<"3", ".", "4", "6", "4">>,
      <<"-", "4">>, <<"n", "a", "n">>, <<"i", "n", "f">>,
      <<"4", ",", " ", "a", "b", "c", ",", " ", "7">> }

Texts == ShortTexts \cup NamedTexts

(***************************************************************************)
(* The computations of the scripts                                         *)
(***************************************************************************)
\* ParsePart with a "break" in the except branch: after a first warning
\* nothing more is read
ParsePart_StopsAtBad(raw, list, warns) ==
    LET part == Strip(raw)
    IN  IF part = <<>> \/ warns # <<>> THEN [list |-> list, warns |-> warns]
        ELSE IF ParseFloat(part).ok
             THEN [list |-> Append(list, ParseFloat(part).val), warns |-> warns]
             ELSE [list |-> list, warns |-> Append(warns, part)]

\* one pass of the body of "for part in <text>.split(',')": the list and
\* the warnings after the part raw has been handled
ParsePart(raw, list, warns) ==
    LET part == Strip(raw)
    IN  IF part = <<>> THEN [list |-> list, warns |-> warns]
        ELSE IF ParseFloat(part).ok
             THEN [list |-> Append(list, ParseFloat(part).val), warns |-> warns]
             ELSE [list |-> list, warns |-> Append(warns, part)]

\* np.linspace(start, stop, num), kept as its three arguments
Linspace(start, stop, num) == [start |-> start, stop |-> stop, num |-> num]

NoGrid == Linspace(Fin(0), Fin(0), 0)

\* element j (from 0) of a grid, exactly: whole + rem / (num - 1) in units
\* of 1/Scale
GridAt(g, j) ==
    LET d     == g.num - 1
        delta == g.stop.v - g.start.v
    IN  [whole |-> g.start.v + j * (delta \div d) + (j * (delta % d)) \div d,
         rem   |-> (j * (delta % d)) % d]

GridLess(p, q) == p.whole < q.whole \/ (p.whole = q.whole /\ p.rem < q.rem)

\* l_critical = 2 * np.sqrt(3) * GM
l_critical == Mul(Mul(Lit(2), Sqrt(Lit(3))), GM)

\* discriminant = 1 - 12 * (GM / l)**2      (l > l_critical, so l is not 0)
discriminant(l) == Sub(Lit(1), Mul(Lit(12), Pow2(DivNZ(GM, l))))

sqrt_disc(l) == Sqrt(discriminant(l))

\* r_max_loc computed from the other root
r_max_loc_OtherRoot(l) == NpDiv(Mul(Lit(6), GM), Sub(Lit(1), sqrt_disc(l)))

\* r_max_loc = 6 * GM / (1 + sqrt_disc)
r_max_loc(l) == NpDiv(Mul(Lit(6), GM), Add(Lit(1), sqrt_disc(l)))

\* r_min_loc = 6 * GM / (1 - sqrt_disc)
r_min_loc(l) == NpDiv(Mul(Lit(6), GM), Sub(Lit(1), sqrt_disc(l)))

\* InWindow without its upper bound
InWindow_NoUpper(r, lo, hi) == Le(lo, r)

\* r_min <= r <= r_max
InWindow(r, lo, hi) == Le(lo, r) /\ Le(r, hi)

\* AboveCritical with >= for >
AboveCritical_OrEqual(l) == Le(l_critical, l)

\* the guard "if l > l_critical:"
AboveCritical(l) == Gt(l, l_critical)

\* the guard "if discriminant > 0:"
PositiveDiscriminant(l) == Gt(discriminant(l), Fin(0))


\* the red marker and the "max en" line of one l
MaxPoint(l) == [l |-> l, kind |-> "max", r |-> NpDiv(r_max_loc(l), GM)]

\* the green marker and the "min en" line of one l
MinPoint(l) == [l |-> l, kind |-> "min", r |-> NpDiv(r_min_loc(l), GM)]

\* find_extrema with the second window test nested in the first
find_extrema_Nested(l, lo, hi) ==
    IF AboveCritical(l) /\ PositiveDiscriminant(l)
    THEN IF InWindow(r_max_loc(l), lo, hi)
         THEN <<MaxPoint(l)>>
              \o (IF InWindow(r_min_loc(l), lo, hi) THEN <<MinPoint(l)>> ELSE <<>>)
         ELSE <<>>
    ELSE <<>>

\* what the body of "for l in l_list" appends to extrema_info for one l
find_extrema(l, lo, hi) ==
    IF AboveCritical(l)
    THEN IF PositiveDiscriminant(l)
         THEN (IF InWindow(r_max_loc(l), lo, hi) THEN <<MaxPoint(l)>> ELSE <<>>)
              \o (IF InWindow(r_min_loc(l), lo, hi) THEN <<MinPoint(l)>> ELSE <<>>)
         ELSE <<>>
    ELSE <<>>

\* b_critical = np.sqrt(27) * GM
b_critical == Mul(Sqrt(Lit(27)), GM)

\* the if / elif / else that chooses style, label_suffix and color
label_suffix(b) ==
    IF Lt(Mul(b, GM), b_critical) THEN "capturado"
    ELSE IF Gt(Mul(b, GM), b_critical) THEN "escapa"
    ELSE "critico"

\* E_eff = 1 / (b * GM)**2 raises ZeroDivisionError.  (The OverflowError of
\* ** for |b| above about 1e154 needs a text longer than the model types.)
EnergyRaises(b) == RaisesZeroDivision(Lit(1), Pow2(Mul(b, GM)))

E_eff(b) == DivNZ(Lit(1), Pow2(Mul(b, GM)))

(***************************************************************************)
(* State                                                                   *)
(***************************************************************************)
VARIABLES
    app,            \* which script runs: "massive" or "photon"
    lambda_str,     \* text input of the massive script
    b_str,          \* text input of the photon script
    show_newtonian, \* checkbox
    slider_r_min,   \* slider "Min r/GM", in units of 1/Scale
    slider_r_max,   \* slider "Max r/GM", in units of 1/Scale
    pc,             \* position of the current run
    i,              \* index of the current loop
    r_min,          \* r_min = r_min * GM
    r_max,          \* r_max = r_max * GM
    l_list,         \* parsed l values
    b_list,         \* parsed b values
    warnings,       \* parts named by st.sidebar.warning, in order
    error,          \* st.error was called
    r_over_GM,      \* the radial grid
    curves,         \* ax.plot calls that draw a curve
    extrema_info,   \* extremum markers and their lines of text
    hlines,         \* ax.axhline calls: one energy level per b
    landmarks,      \* vertical lines drawn: horizon, photon orbit
    shown,          \* st.pyplot(fig) was called
    raised          \* the exception that ended the run, "" if none

widgets == <<app, lambda_str, b_str, show_newtonian, slider_r_min, slider_r_max>>

outputs == <<l_list, b_list, warnings, error, r_over_GM, curves,
             extrema_info, hlines, landmarks, shown, raised>>

vars == <<widgets, pc, i, r_min, r_max, outputs>>

\* a run starts with nothing produced
Fresh ==
    /\ pc = "widgets"
    /\ i = 1
    /\ r_min = Fin(0)
    /\ r_max = Fin(0)
    /\ l_list = <<>>
    /\ b_list = <<>>
    /\ warnings = <<>>
    /\ error = FALSE
    /\ r_over_GM = NoGrid
    /\ curves = <<>>
    /\ extrema_info = <<>>
    /\ hlines = <<>>
    /\ landmarks = {}
    /\ shown = FALSE
    /\ raised = ""

RMinSlider == IF app = "massive" THEN RMinSliderMassive ELSE RMinSliderPhoton

RMaxSlider == IF app = "massive" THEN RMaxSliderMassive ELSE RMaxSliderPhoton

\* the page is opened: every widget holds its initial value
Init ==
    /\ app \in {"massive", "photon"}
    /\ lambda_str = DefaultLambdaStr
    /\ b_str = DefaultBStr
    /\ show_newtonian = FALSE
    /\ slider_r_min = RMinSlider.value
    /\ slider_r_max = RMaxSlider.value
    /\ Fresh

\* the run is over: st.pyplot and the text below it are done, st.stop() was
\* called, or an exception ended the script
Idle == pc \in {"done", "stopped", "raised"}

\* a changed widget starts a new run of the script
Rerun ==
    /\ pc' = "widgets" /\ i' = 1 /\ r_min' = Fin(0) /\ r_max' = Fin(0)
    /\ l_list' = <<>> /\ b_list' = <<>> /\ warnings' = <<>> /\ error' = FALSE
    /\ r_over_GM' = NoGrid /\ curves' = <<>> /\ extrema_info' = <<>>
    /\ hlines' = <<>> /\ landmarks' = {} /\ shown' = FALSE /\ raised' = ""

SetLambdaStr ==
    /\ Idle /\ app = "massive"
    /\ \E t \in Texts \ {lambda_str} : lambda_str' = t
    /\ UNCHANGED <<app, b_str, show_newtonian, slider_r_min, slider_r_max>>
    /\ Rerun

SetBStr ==
    /\ Idle /\ app = "photon"
    /\ \E t \in Texts \ {b_str} : b_str' = t
    /\ UNCHANGED <<app, lambda_str, show_newtonian, slider_r_min, slider_r_max>>
    /\ Rerun

ToggleNewtonian ==
    /\ Idle
    /\ show_newtonian' = ~show_newtonian
    /\ UNCHANGED <<app, lambda_str, b_str, slider_r_min, slider_r_max>>
    /\ Rerun

SetRMin ==
    /\ Idle
    /\ \E v \in SliderChoices(RMinSlider) \ {slider_r_min} : slider_r_min' = v
    /\ UNCHANGED <<app, lambda_str, b_str, show_newtonian, slider_r_max>>
    /\ Rerun

SetRMax ==
    /\ Idle
    /\ \E v \in SliderChoices(RMaxSlider) \ {slider_r_max} : slider_r_max' = v
    /\ UNCHANGED <<app, lambda_str, b_str, show_newtonian, slider_r_min>>
    /\ Rerun

\* the top of either script: the widgets are read, r_min and r_max scaled
ReadWidgets ==
    /\ pc = "widgets"
    /\ r_min' = Mul(Fin(slider_r_min), GM)
    /\ r_max' = Mul(Fin(slider_r_max), GM)
    /\ pc' = "parse"
    /\ i' = 1
    /\ UNCHANGED <<widgets, outputs>>

\* massive: one pass of "for part in lambda_str.split(',')"
ParseL ==
    /\ pc = "parse" /\ app = "massive"
    /\ LET parts == SplitComma(lambda_str)
           res   == ParsePart(parts[i], l_list, warnings)
       IN  /\ l_list' = res.list
           /\ warnings' = res.warns
           /\ i' = i + 1
           /\ pc' = IF i = Len(parts) THEN "check" ELSE "parse"
    /\ UNCHANGED <<widgets, r_min, r_max, b_list, error, r_over_GM, curves,
                   extrema_info, hlines, landmarks, shown, raised>>

\* photon: one pass of "for part in b_str.split(',')"
ParseB ==
    /\ pc = "parse" /\ app = "photon"
    /\ LET parts == SplitComma(b_str)
           res   == ParsePart(parts[i], b_list, warnings)
       IN  /\ b_list' = res.list
           /\ warnings' = res.warns
           /\ i' = i + 1
           /\ pc' = IF i = Len(parts) THEN "check" ELSE "parse"
    /\ UNCHANGED <<widgets, r_min, r_max, l_list, error, r_over_GM, curves,
                   extrema_info, hlines, landmarks, shown, raised>>

\* CheckEmptyL without st.stop()
CheckEmptyL_NoStop ==
    /\ pc = "check" /\ app = "massive"
    /\ error' = (l_list = <<>>)
    /\ pc' = "grid"
    /\ UNCHANGED <<widgets, i, r_min, r_max, l_list, b_list, warnings,
                   r_over_GM, curves, extrema_info, hlines, landmarks, shown,
                   raised>>

\* massive: "if not l_list: st.error(...); st.stop()"
CheckEmptyL ==
    /\ pc = "check" /\ app = "massive"
    /\ IF l_list = <<>>
       THEN error' = TRUE /\ pc' = "stopped"
       ELSE error' = error /\ pc' = "grid"
    /\ UNCHANGED <<widgets, i, r_min, r_max, l_list, b_list, warnings,
                   r_over_GM, curves, extrema_info, hlines, landmarks, shown,
                   raised>>

\* photon: "if not b_list: st.error(...); st.stop()"
CheckEmptyB ==
    /\ pc = "check" /\ app = "photon"
    /\ IF b_list = <<>>
       THEN error' = TRUE /\ pc' = "stopped"
       ELSE error' = error /\ pc' = "grid"
    /\ UNCHANGED <<widgets, i, r_min, r_max, l_list, b_list, warnings,
                   r_over_GM, curves, extrema_info, hlines, landmarks, shown,
                   raised>>

\* the horizon line is drawn when r_min <= 2 * GM <= r_max
HorizonMark ==
    IF InWindow(Mul(Lit(2), GM), r_min, r_max) THEN {"horizon"} ELSE {}

\* the photon orbit is marked when r_min <= 3 * GM <= r_max
PhotonOrbitMark ==
    IF InWindow(Mul(Lit(3), GM), r_min, r_max) THEN {"photon_orbit"} ELSE {}

\* massive: r_over_GM = np.linspace(r_min, r_max, num_points)
GridL ==
    /\ pc = "grid" /\ app = "massive"
    /\ r_over_GM' = Linspace(r_min, r_max, num_points)
    /\ pc' = "plot"
    /\ i' = 1
    /\ UNCHANGED <<widgets, r_min, r_max, l_list, b_list, warnings, error,
                   curves, extrema_info, hlines, landmarks, shown, raised>>

\* the curves one l adds to the axes
CurvesOf(l) ==
    <<[l |-> l, flavor |-> "Schwarzschild"]>>
      \o (IF show_newtonian THEN <<[l |-> l, flavor |-> "Newton"]>> ELSE <<>>)

\* massive: one pass of "for l in l_list"
PlotL ==
    /\ pc = "plot" /\ app = "massive"
    /\ LET l == l_list[i]
       IN  /\ curves' = curves \o CurvesOf(l)
           /\ extrema_info' = extrema_info \o find_extrema(l, r_min, r_max)
    /\ i' = i + 1
    /\ pc' = IF i = Len(l_list) THEN "render" ELSE "plot"
    /\ UNCHANGED <<widgets, r_min, r_max, l_list, b_list, warnings, error,
                   r_over_GM, hlines, landmarks, shown, raised>>

\* massive: the horizon line, the axes, st.pyplot(fig) and the list of
\* critical points below the figure
RenderL ==
    /\ pc = "render" /\ app = "massive"
    /\ landmarks' = landmarks \cup HorizonMark
    /\ shown' = TRUE
    /\ pc' = "done"
    /\ UNCHANGED <<widgets, i, r_min, r_max, l_list, b_list, warnings, error,
                   r_over_GM, curves, extrema_info, hlines, raised>>

\* photon: the grid, the potential curve(s), the photon orbit, the horizon
GridB ==
    /\ pc = "grid" /\ app = "photon"
    /\ r_over_GM' = Linspace(r_min, r_max, num_points)
    /\ curves' = <<[l |-> Fin(0), flavor |-> "Schwarzschild"]>>
                   \o (IF show_newtonian
                       THEN <<[l |-> Fin(0), flavor |-> "Newton"]>> ELSE <<>>)
    /\ landmarks' = PhotonOrbitMark \cup HorizonMark
    /\ pc' = "levels"
    /\ i' = 1
    /\ UNCHANGED <<widgets, r_min, r_max, l_list, b_list, warnings, error,
                   extrema_info, hlines, shown, raised>>

\* photon: one pass of "for b in b_list"
LevelB ==
    /\ pc = "levels" /\ app = "photon"
    /\ LET b == b_list[i]
       IN  IF EnergyRaises(b)
           THEN /\ raised' = "ZeroDivisionError"
                /\ pc' = "raised"
                /\ UNCHANGED <<hlines, i>>
           ELSE /\ hlines' = Append(hlines, [b |-> b, E_eff |-> E_eff(b),
                                             label_suffix |-> label_suffix(b)])
                /\ i' = i + 1
                /\ pc' = IF i = Len(b_list) THEN "render" ELSE "levels"
                /\ UNCHANGED raised
    /\ UNCHANGED <<widgets, r_min, r_max, l_list, b_list, warnings, error,
                   r_over_GM, curves, extrema_info, landmarks, shown>>

\* photon: the axes, st.pyplot(fig) and the text below the figure
RenderB ==
    /\ pc = "render" /\ app = "photon"
    /\ shown' = TRUE
    /\ pc' = "done"
    /\ UNCHANGED <<widgets, i, r_min, r_max, l_list, b_list, warnings, error,
                   r_over_GM, curves, extrema_info, hlines, landmarks, raised>>

Next ==
    \/ SetLambdaStr
    \/ SetBStr
    \/ ToggleNewtonian
    \/ SetRMin
    \/ SetRMax
    \/ ReadWidgets
    \/ ParseL
    \/ ParseB
    \/ CheckEmptyL
    \/ CheckEmptyB
    \/ GridL
    \/ GridB
    \/ PlotL
    \/ LevelB
    \/ RenderL
    \/ RenderB

Spec == Init /\ [][Next]_vars

(***************************************************************************)
(* Properties                                                              *)
(***************************************************************************)
\* the text and the list of the script that runs
TheText == IF app = "massive" THEN lambda_str ELSE b_str

TheList == IF app = "massive" THEN l_list ELSE b_list

\* the stripped parts of the first n pieces of the text
Tokens(n) == [j \in 1..n |-> Strip(SplitComma(TheText)[j])]

Parsable(t) == t # <<>> /\ ParseFloat(t).ok

Unparsable(t) == t # <<>> /\ ~ParseFloat(t).ok

\* the values of the parsable tokens, in the order of the tokens
ValuesOf(toks) ==
    LET good == SelectSeq(toks, Parsable)
    IN  [j \in 1..Len(good) |-> ParseFloat(good[j]).val]

\* the pieces already read by the parsing loop
PiecesRead ==
    IF pc = "widgets" THEN 0
    ELSE IF pc = "parse" THEN i - 1
    ELSE Len(SplitComma(TheText))

\* C1: the parsed list holds the values of the parsable tokens in the order
\* of the tokens, the warnings name exactly the non-empty unparsable tokens,
\* one each and in order, an empty token gives neither, and a bad token does
\* not end the reading: this holds after every piece read and at the end.
C1_ParserKeepsOrderAndWarns ==
    /\ TheList = ValuesOf(Tokens(PiecesRead))
    /\ warnings = SelectSeq(Tokens(PiecesRead), Unparsable)
    /\ pc \notin {"widgets", "parse"} => PiecesRead = Len(SplitComma(TheText))

\* a run that has read a bad token and then a good one
C1_Witness ==
    /\ pc = "check"
    /\ \E j, k \in 1..PiecesRead :
          j < k /\ Unparsable(Tokens(PiecesRead)[j])
                /\ Parsable(Tokens(PiecesRead)[k])
    /\ TheList # <<>>
    /\ warnings # <<>>

NothingProduced ==
    /\ r_over_GM = NoGrid
    /\ curves = <<>>
    /\ extrema_info = <<>>
    /\ hlines = <<>>
    /\ landmarks = {}
    /\ ~shown

PastCheck == pc \notin {"widgets", "parse", "check"}

\* C2: in both scripts a run whose parsed list is empty reports the error
\* and stops with no grid, curve, extremum, level, landmark or figure; a run
\* whose list is not empty does not report the error and is not stopped.
C2_EmptyListHalts ==
    /\ (PastCheck /\ TheList = <<>>) => (pc = "stopped" /\ error)
    /\ (PastCheck /\ TheList # <<>>) => (pc # "stopped" /\ ~error)
    /\ (error \/ pc = "stopped") => NothingProduced

\* a stopped run whose text held only unparsable tokens
C2_Witness ==
    /\ pc = "stopped"
    /\ error
    /\ warnings # <<>>
    /\ TheList = <<>>

\* C3 (as claimed): every level drawn carries exactly one regime, "capturado"
\* iff b*GM < b_crit, "escapa" iff b*GM > b_crit, "critico" iff b*GM == b_crit.
C3_RegimeByComparison ==
    \A j \in 1..Len(hlines) :
       LET h == hlines[j]
           x == Mul(h.b, GM)
           c == Mul(Sqrt(Lit(27)), GM)
       IN  /\ h.label_suffix \in {"capturado", "escapa", "critico"}
           /\ (h.label_suffix = "capturado") <=> Lt(x, c)
           /\ (h.label_suffix = "escapa") <=> Gt(x, c)
           /\ (h.label_suffix = "critico") <=> FEq(x, c)

\* the kinds of a list of extremum points
Kinds(pts) == [j \in 1..Len(pts) |-> pts[j].kind]

\* the window r_min = 0, r_max = 1000 of C4
Points0To1000(l) == find_extrema(l, Fin(0), Lit(1000))

TwoSqrt3GM == Mul(Mul(Lit(2), Sqrt(Lit(3))), GM)

Handled ==
    IF app = "massive" /\ pc \in {"plot", "render", "done"}
    THEN SubSeq(l_list, 1, IF pc = "plot" THEN i - 1 ELSE Len(l_list))
    ELSE <<>>

\* C5: every extremum point belongs to an l strictly above l_crit whose
\* discriminant is strictly positive; an l at or below l_crit (l == l_crit
\* included) has no point, whatever the window.
C5_OnlyAboveCritical ==
    /\ \A j \in 1..Len(extrema_info) :
          /\ Gt(extrema_info[j].l, TwoSqrt3GM)
          /\ Gt(Sub(Lit(1), Mul(Lit(12), Pow2(DivNZ(GM, extrema_info[j].l)))),
                Fin(0))
    /\ \A j \in 1..Len(Handled) :
          ~Gt(Handled[j], TwoSqrt3GM)
             => \A k \in 1..Len(extrema_info) : extrema_info[k].l # Handled[j]

\* a finished run whose only l equals l_crit: no point
C5_Witness ==
    /\ app = "massive"
    /\ pc = "done"
    /\ Len(l_list) = 1
    /\ FEq(l_list[1], TwoSqrt3GM)
    /\ extrema_info = <<>>

\* C6 (as claimed): in every run of either script that builds the grid, the
\* window read from the sliders satisfies 0 < r_min < r_max, and the grid of
\* num_points radii built from it is strictly increasing with every radius
\* above 0.
C6_WindowAndGridIncreasing ==
    (pc \in {"plot", "levels"} /\ i = 1) =>
          /\ Lt(Fin(0), r_min) /\ Lt(r_min, r_max)
          /\ r_over_GM = Linspace(r_min, r_max, num_points)
          /\ \A j \in 0..(r_over_GM.num - 2) :
                GridLess(GridAt(r_over_GM, j), GridAt(r_over_GM, j + 1))
          /\ \A j \in 0..(r_over_GM.num - 1) : GridAt(r_over_GM, j).whole > 0

\* the labels of the levels drawn
Labels == [j \in 1..Len(hlines) |-> hlines[j].label_suffix]

\* C7 (as claimed): with the default text of the photon script the three
\* levels are labelled critical, escapes, captured, in that order.
C7_DefaultTextRegimes ==
    (app = "photon" /\ b_str = DefaultBStr /\ pc = "done")
       => Labels = <<"critico", "escapa", "capturado">>

\* the points C8 expects for one l
ExpectedPoints(l) ==
    LET D     == Sub(Lit(1), Mul(Lit(12), Pow2(DivNZ(GM, l))))
        inner == NpDiv(Mul(Lit(6), GM), Add(Lit(1), Sqrt(D)))
        outer == NpDiv(Mul(Lit(6), GM), Sub(Lit(1), Sqrt(D)))
    IN  IF Gt(l, TwoSqrt3GM) /\ Gt(D, Fin(0))
        THEN (IF Le(r_min, inner) /\ Le(inner, r_max)
              THEN <<[l |-> l, kind |-> "max", r |-> NpDiv(inner, GM)]>>
              ELSE <<>>)
             \o (IF Le(r_min, outer) /\ Le(outer, r_max)
                 THEN <<[l |-> l, kind |-> "min", r |-> NpDiv(outer, GM)]>>
                 ELSE <<>>)
        ELSE <<>>

RECURSIVE ExpectedFor(_)
ExpectedFor(ls) ==
    IF ls = <<>> THEN <<>>
    ELSE ExpectedFor(SubSeq(ls, 1, Len(ls) - 1)) \o ExpectedPoints(ls[Len(ls)])

C9_MaxInsideMin ==
    /\ \A j \in 1..Len(l_list) :
          (Gt(l_list[j], TwoSqrt3GM) /\ Gt(discriminant(l_list[j]), Fin(0)))
             => Lt(r_max_loc(l_list[j]), r_min_loc(l_list[j]))
    /\ \A j, k \in 1..Len(extrema_info) :
          (/\ extrema_info[j].l = extrema_info[k].l
           /\ extrema_info[j].kind = "max"
           /\ extrema_info[k].kind = "min")
             => Lt(extrema_info[j].r, extrema_info[k].r)

\* a finished run that drew both points of one l
C9_Witness ==
    /\ app = "massive"
    /\ pc = "done"
    /\ \E j, k \in 1..Len(extrema_info) :
          /\ extrema_info[j].l = extrema_info[k].l
          /\ extrema_info[j].kind = "max"
          /\ extrema_info[k].kind = "min"
          /\ Lt(extrema_info[j].r, extrema_info[k].r)

\* C10 (as claimed): a run of the photon script whose parsed list is not
\* empty ends at the figure, with one level (energy and regime) per parsed b
\* and no exception.
C10_PhotonRunCompletes ==
    (app = "photon" /\ Idle /\ b_list # <<>>)
       => /\ pc = "done"
          /\ shown
          /\ raised = ""
          /\ Len(hlines) = Len(b_list)
          /\ \A j \in 1..Len(b_list) : hlines[j].b = b_list[j]

=============================================================================
